---- MODULE Spec2Model ----
(***************************************************************************)
(* Model of pulp_cookbook/app/viewsets.py: the validated create path of    *)
(* CookbookPackageContentViewSet and the publish path of                   *)
(* CookbookPublisherViewSet with _RepositoryPublishURLSerializer.          *)
(***************************************************************************)
EXTENDS Integers, Sequences, FiniteSets, TLC

\* ------------------------------------------------------------------------
\* Bounds of the model
\* ------------------------------------------------------------------------
MaxContent == 2
MaxVersions == 2
MaxTasks == 2

\* ------------------------------------------------------------------------
\* Values
\* ------------------------------------------------------------------------
\* A key that is missing from the request dict (data.get(...) gives None,
\* data[...] raises KeyError).
Absent == "absent"

Artifacts == {"A1", "A2", "A3"}
Names == {"n1", "n2"}
Versions == {"1.0", "2.0"}

Repositories == {"R1", "R2"}
Publishers == {"P1", "P2"}

\* The content record has no artifact until content.artifact is assigned.
NoArtifact == "none"

Present(x) == x # Absent

\* ------------------------------------------------------------------------
\* Collaborators of the create path
\* ------------------------------------------------------------------------
\* The descriptor embedded in an artifact's archive; A3 has none.
Descriptor(artifact) ==
    CASE artifact = "A1" -> [found |-> TRUE, name |-> "n1", version |-> "1.0", dependencies |-> "d1"]
      [] artifact = "A2" -> [found |-> TRUE, name |-> "n2", version |-> "2.0", dependencies |-> "d2"]
      [] OTHER -> [found |-> FALSE, name |-> "", version |-> "", dependencies |-> ""]

\* CookbookMetadata.from_cookbook_file(file, name): the descriptor stored for
\* `name` in the archive, FileNotFoundError (found = FALSE) when there is none.
from_cookbook_file(artifact, name) ==
    IF Descriptor(artifact).found /\ Descriptor(artifact).name = name
    THEN Descriptor(artifact)
    ELSE [found |-> FALSE, name |-> "", version |-> "", dependencies |-> ""]

\* serializer.is_valid(raise_exception=True) on the completed data: the
\* admission endpoint requires a name, the version is optional.
is_valid(data) == Present(data.name)

\* serializer.save(dependencies=...): the new content record, not yet bound.
save(pk, data, dependencies) ==
    [pk |-> pk, name |-> data.name, version |-> data.version,
     dependencies |-> dependencies, artifact |-> NoArtifact]

\* ------------------------------------------------------------------------
\* CookbookPackageContentViewSet.create
\* ------------------------------------------------------------------------
ValidationError(field, msg) ==
    [status |-> 400, field |-> field, msg |-> msg, pk |-> 0]

Created(pk) ==
    [status |-> 201, field |-> "", msg |-> "", pk |-> pk]

NoResponse == [status |-> 0, field |-> "", msg |-> "", pk |-> 0]

NoRequest == [artifact |-> Absent, name |-> Absent, version |-> Absent]

\* try: artifact = self.get_resource(data['artifact'], Artifact)
ArtifactMissing(data) == ~Present(data.artifact)

\* data['name'] is evaluated before from_cookbook_file is called
NameMissing(data) == ~Present(data.name)

\* except FileNotFoundError
MetadataMissing(data) == ~from_cookbook_file(data.artifact, data.name).found

\* A slip that handles FileNotFoundError in the KeyError clause of the name.
MetadataErrorAsName == ValidationError("name", "required")

\* detail={'artifact': _('No metadata.json found in cookbook tar')}
MetadataError == ValidationError("artifact", "no metadata")

\* A slip that compares without passing over a missing version key.
VersionDiffersStrict(data, metadata) == data.version # metadata.version

\* if data['version'] != metadata.version (a missing key is passed over)
VersionDiffers(data, metadata) ==
    Present(data.version) /\ data.version # metadata.version

\* A slip that keeps the caller's version.
SetVersionDeclared(data, metadata) == data

\* data['version'] = metadata.version
SetVersion(data, metadata) == [data EXCEPT !.version = metadata.version]

\* A slip that reads data['name'] before data['artifact'].
CreateErrorNameFirst(data) ==
    IF NameMissing(data) THEN ValidationError("name", "required")
    ELSE IF ArtifactMissing(data) THEN ValidationError("artifact", "required")
    ELSE IF MetadataMissing(data) THEN MetadataError
    ELSE IF VersionDiffers(data, from_cookbook_file(data.artifact, data.name))
         THEN ValidationError("version", "mismatch")
    ELSE IF ~is_valid(SetVersion(data, from_cookbook_file(data.artifact, data.name)))
         THEN ValidationError("serializer", "invalid")
    ELSE NoResponse

\* The checks of create in the order the code makes them; the first that
\* fails raises.
CreateError(data) ==
    IF ArtifactMissing(data) THEN ValidationError("artifact", "required")
    ELSE IF NameMissing(data) THEN ValidationError("name", "required")
    ELSE IF MetadataMissing(data) THEN MetadataError
    ELSE IF VersionDiffers(data, from_cookbook_file(data.artifact, data.name))
         THEN ValidationError("version", "mismatch")
    ELSE IF ~is_valid(SetVersion(data, from_cookbook_file(data.artifact, data.name)))
         THEN ValidationError("serializer", "invalid")
    ELSE NoResponse

\* Autocommit, as without the decorator: every write is visible at once.
ReaderViewAutocommit(committed, uncommitted) == committed \cup uncommitted

\* @transaction.atomic: what a reader of committed state sees while the
\* transaction of create is open.
ReaderView(committed, uncommitted) == committed

\* @transaction.atomic: the exit of the block commits the writes.
Commit(committed, uncommitted) ==
    {c \in committed : \A u \in uncommitted : u.pk # c.pk} \cup uncommitted


\* ------------------------------------------------------------------------
\* Repositories, versions, publishers
\* ------------------------------------------------------------------------
RepositoryPk(repository) == IF repository = "R1" THEN 1 ELSE 2
PublisherPk(publisher) == IF publisher = "P1" THEN 1 ELSE 2

\* The primary key of the version `number` of a repository.
VersionPk(repository, number) == 10 * RepositoryPk(repository) + number

\* data.get('repository_version') of a request without that key.
NoVersion == [pk |-> 0, repository |-> Absent, number |-> 0]

\* str(pk): the decimal digits of the key, most significant first.
RECURSIVE str(_)
str(pk) == IF pk < 10 THEN <<pk>> ELSE str(pk \div 10) \o <<pk % 10>>

\* RepositoryVersion.latest(repository): the last version, None without one.
latest(vs, repository) ==
    IF Len(vs[repository]) = 0 THEN NoVersion
    ELSE vs[repository][Len(vs[repository])]

\* The resource a reservation names.
Resource(kind, pk) == <<kind, pk>>

\* ------------------------------------------------------------------------
\* _RepositoryPublishURLSerializer.validate
\* ------------------------------------------------------------------------
Invalid(detail, d) == [ok |-> FALSE, detail |-> detail, data |-> d]
Valid(d) == [ok |-> TRUE, detail |-> "", data |-> d]

\* new_data.update(data): the keys of data replace those of new_data.
update(new_data, d) ==
    [repository |-> IF Present(d.repository) THEN d.repository
                    ELSE new_data.repository,
     repository_version |-> IF d.repository_version # NoVersion
                            THEN d.repository_version
                            ELSE new_data.repository_version]

\* A slip that leaves out the closing raise and accepts both fields.
validateBothAccepted(d, vs) ==
    IF ~Present(d.repository) /\ d.repository_version = NoVersion
    THEN Invalid("neither", d)
    ELSE IF d.repository_version # NoVersion
    THEN Valid(d)
    ELSE IF latest(vs, d.repository) # NoVersion
         THEN Valid(update([repository |-> Absent,
                            repository_version |-> latest(vs, d.repository)], d))
         ELSE Invalid("no version", d)

validate(d, vs) ==
    IF ~Present(d.repository) /\ d.repository_version = NoVersion
    THEN Invalid("neither", d)
    ELSE IF ~Present(d.repository) /\ d.repository_version # NoVersion
    THEN Valid(d)
    ELSE IF Present(d.repository) /\ d.repository_version = NoVersion
    THEN IF latest(vs, d.repository) # NoVersion
         THEN Valid(update([repository |-> Absent,
                            repository_version |-> latest(vs, d.repository)], d))
         ELSE Invalid("no version", d)
    ELSE Invalid("both", d)

\* ------------------------------------------------------------------------
\* CookbookPublisherViewSet.publish
\* ------------------------------------------------------------------------
\* A slip that reserves the version instead of the repository owning it.
ReservationKeyVersion(validated_data, publisher) ==
    <<Resource("versions", validated_data.repository_version.pk),
      Resource("publishers", PublisherPk(publisher))>>

\* A slip that reserves the repository field of the request.
ReservationKeyRequested(validated_data, publisher) ==
    <<IF Present(validated_data.repository)
      THEN Resource("repositories", RepositoryPk(validated_data.repository))
      ELSE Resource("none", 0),
      Resource("publishers", PublisherPk(publisher))>>

\* [repository_version.repository, publisher]
ReservationKey(validated_data, publisher) ==
    <<Resource("repositories",
               RepositoryPk(validated_data.repository_version.repository)),
      Resource("publishers", PublisherPk(publisher))>>

\* A slip that passes the key of the repository.
TaskKwargsRepository(publisher, repository_version) ==
    [publisher_pk |-> str(PublisherPk(publisher)),
     repository_version_pk |-> str(RepositoryPk(repository_version.repository))]

\* kwargs of the task
TaskKwargs(publisher, repository_version) ==
    [publisher_pk |-> str(PublisherPk(publisher)),
     repository_version_pk |-> str(repository_version.pk)]

\* A slip that dispatches the task a second time.
DispatchTwice(ts, reserved, kwargs) ==
    ts \o <<[reserved |-> reserved, kwargs |-> kwargs, state |-> "waiting"],
            [reserved |-> reserved, kwargs |-> kwargs, state |-> "waiting"]>>

\* tasks.publish.apply_async_with_reservation(...), called once
Dispatch(ts, reserved, kwargs) ==
    Append(ts, [reserved |-> reserved, kwargs |-> kwargs, state |-> "waiting"])

PostponedResponse == [status |-> 202, detail |-> ""]
PublishError(detail) == [status |-> 400, detail |-> detail]
NoPublishResponse == [status |-> 0, detail |-> ""]

NoPublishData == [repository |-> Absent, repository_version |-> NoVersion]
NoPublishRequest == [publisher |-> Absent, data |-> NoPublishData]

VARIABLES
    db,        \* committed content records
    txn,       \* records written in the open transaction of create
    pc,        \* position of the create handler
    req,       \* request of the current (or last) create, as it was sent
    data,      \* request.data as create has changed it
    resp,      \* its response, NoResponse while it runs
    prevReq,   \* the create request handled before it
    prevResp,
    nextPk,    \* primary key of the next content record
    versions,  \* repository -> sequence of its versions
    tasks,     \* publish tasks dispatched and not finished, in dispatch order
    pubReq,    \* last publish request: publisher and data
    validated, \* what its serializer gave: validated_data or the error
    pubResp    \* its response

vars == <<db, txn, pc, req, data, resp, prevReq, prevResp, nextPk,
          versions, tasks, pubReq, validated, pubResp>>

admitVars == <<db, txn, pc, req, data, resp, prevReq, prevResp, nextPk>>
publishVars == <<versions, tasks, pubReq, validated, pubResp>>

Requests == [artifact : Artifacts \cup {Absent},
             name : Names \cup {Absent},
             version : Versions \cup {Absent}]

\* Lines 92-115: the request is read and checked; a failing check raises and
\* the transaction is rolled back.
CreateBegin(d) ==
    /\ pc = "idle"
    /\ nextPk <= MaxContent
    /\ prevReq' = req
    /\ prevResp' = resp
    /\ req' = d
    /\ IF CreateError(d).status = 400
       THEN /\ data' = d
            /\ resp' = CreateError(d)
            /\ txn' = {}
            /\ pc' = "idle"
       ELSE /\ data' = SetVersion(d, from_cookbook_file(d.artifact, d.name))
            /\ resp' = NoResponse
            /\ txn' = {}
            /\ pc' = "save"
    /\ UNCHANGED <<db, nextPk>>
    /\ UNCHANGED publishVars

\* Line 116: content = serializer.save(dependencies=metadata.dependencies)
CreateSave ==
    /\ pc = "save"
    /\ txn' = {save(nextPk, data,
                    from_cookbook_file(data.artifact, data.name).dependencies)}
    /\ pc' = "bind"
    /\ UNCHANGED <<db, req, data, resp, prevReq, prevResp, nextPk>>
    /\ UNCHANGED publishVars

\* Line 117: content.artifact = artifact
CreateBind ==
    /\ pc = "bind"
    /\ txn' = {[c EXCEPT !.artifact = data.artifact] : c \in txn}
    /\ pc' = "return"
    /\ UNCHANGED <<db, req, data, resp, prevReq, prevResp, nextPk>>
    /\ UNCHANGED publishVars

\* Lines 119-120: the response is built and the atomic block is left.
CreateReturn ==
    /\ pc = "return"
    /\ db' = Commit(db, txn)
    /\ txn' = {}
    /\ resp' = Created(nextPk)
    /\ nextPk' = nextPk + 1
    /\ pc' = "idle"
    /\ UNCHANGED <<req, data, prevReq, prevResp>>
    /\ UNCHANGED publishVars

InitAdmit ==
    /\ db = {}
    /\ txn = {}
    /\ pc = "idle"
    /\ req = NoRequest
    /\ data = NoRequest
    /\ resp = NoResponse
    /\ prevReq = NoRequest
    /\ prevResp = NoResponse
    /\ nextPk = 1

InitPublish ==
    /\ versions = [r \in Repositories |-> <<>>]
    /\ tasks = <<>>
    /\ pubReq = NoPublishRequest
    /\ validated = Invalid("", NoPublishData)
    /\ pubResp = NoPublishResponse

Init == InitAdmit /\ InitPublish

\* The versions that exist.
AllVersions == UNION {{versions[r][i] : i \in 1..Len(versions[r])} : r \in Repositories}

PublishRequests == [repository : Repositories \cup {Absent},
                    repository_version : AllVersions \cup {NoVersion}]

\* Lines 129-147: the request is validated and, when valid, the task is
\* dispatched with its reservation.
publish(publisher, d) ==
    /\ validate(d, versions).ok => Len(tasks) < MaxTasks
    /\ pubReq' = [publisher |-> publisher, data |-> d]
    /\ validated' = validate(d, versions)
    /\ IF validate(d, versions).ok
       THEN /\ tasks' = Dispatch(tasks,
                           ReservationKey(validate(d, versions).data, publisher),
                           TaskKwargs(publisher,
                               validate(d, versions).data.repository_version))
            /\ pubResp' = PostponedResponse
       ELSE /\ tasks' = tasks
            /\ pubResp' = PublishError(validate(d, versions).detail)
    /\ UNCHANGED versions
    /\ UNCHANGED admitVars

\* A new version of a repository is created.
AddVersion(repository) ==
    /\ Cardinality(AllVersions) < MaxVersions
    /\ versions' = [versions EXCEPT ![repository] =
          Append(@, [pk |-> VersionPk(repository, Len(@) + 1),
                     repository |-> repository, number |-> Len(@) + 1])]
    /\ UNCHANGED <<tasks, pubReq, validated, pubResp>>
    /\ UNCHANGED admitVars

\* A worker takes a waiting task: no task with the same reservation key is
\* running and none was queued before it.
StartTask(i) ==
    /\ tasks[i].state = "waiting"
    /\ \A j \in DOMAIN tasks :
          j # i /\ tasks[j].reserved = tasks[i].reserved
              => j > i /\ tasks[j].state # "running"
    /\ tasks' = [tasks EXCEPT ![i].state = "running"]
    /\ UNCHANGED <<versions, pubReq, validated, pubResp>>
    /\ UNCHANGED admitVars

\* The worker finishes the task and its reservation is released.
FinishTask(i) ==
    /\ tasks[i].state = "running"
    /\ tasks' = SubSeq(tasks, 1, i - 1) \o SubSeq(tasks, i + 1, Len(tasks))
    /\ UNCHANGED <<versions, pubReq, validated, pubResp>>
    /\ UNCHANGED admitVars

Next ==
    \/ \E d \in Requests : CreateBegin(d)
    \/ CreateSave
    \/ CreateBind
    \/ CreateReturn

Spec == Init /\ [][Next]_vars

NextPublish ==
    \/ \E publisher \in Publishers, d \in PublishRequests : publish(publisher, d)
    \/ \E repository \in Repositories : AddVersion(repository)
    \/ \E i \in DOMAIN tasks : StartTask(i)
    \/ \E i \in DOMAIN tasks : FinishTask(i)

SpecPublish == Init /\ [][NextPublish]_vars

\* ------------------------------------------------------------------------
\* Properties of the create path
\* ------------------------------------------------------------------------
\* The create handler has answered the request req.
Completed == pc = "idle" /\ resp # NoResponse

\* The error of the taxonomy that a response reports.
ErrorKind(r) ==
    CASE r.status = 201 -> "Created"
      [] r.status = 400 /\ r.msg = "required" -> "MissingField"
      [] r.status = 400 /\ r.field = "artifact" /\ r.msg = "no metadata" -> "InvalidArtifact"
      [] r.status = 400 /\ r.field = "version" -> "VersionMismatch"
      [] OTHER -> "Other"

\* The archive of the request's artifact holds a descriptor for its name.
HasDescriptor(r) ==
    Descriptor(r.artifact).found /\ Descriptor(r.artifact).name = r.name

\* The outcome the ordered rules of admission give for a request:
\* <<error kind, field>>.
FirstFailingRule(r) ==
    IF r.artifact = Absent THEN <<"MissingField", "artifact">>
    ELSE IF r.name = Absent THEN <<"MissingField", "name">>
    ELSE IF ~HasDescriptor(r) THEN <<"InvalidArtifact", "artifact">>
    ELSE IF r.version # Absent /\ r.version # Descriptor(r.artifact).version
         THEN <<"VersionMismatch", "version">>
    ELSE <<"Created", "">>

\* The request repeats the one before it with the version corrected or left out.
RetryOfPrev ==
    /\ req.artifact = prevReq.artifact
    /\ req.name = prevReq.name
    /\ req.version \in {Absent, Descriptor(req.artifact).version}

\* C3 (first half): a create that answers with a validation error leaves the
\* committed content records and their artifact bindings as they were and
\* keeps nothing in the transaction.
C3_FailureKeepsContent ==
    resp'.status = 400 => db' = db /\ txn' = {} /\ nextPk' = nextPk

\* C3 (second half): after a create failed with VersionMismatch, the next
\* create of the same artifact and name with the embedded version, or with no
\* version, is not rejected and is answered with 201 and a persisted record.
C3_RetrySucceeds ==
    ErrorKind(prevResp) = "VersionMismatch" /\ RetryOfPrev
        => /\ resp.status # 400
           /\ Completed => /\ resp.status = 201
                            /\ \E c \in db : c.pk = resp.pk /\ c.artifact = req.artifact

\* C3 as stated: every failed admission (MissingField, InvalidArtifact or
\* VersionMismatch) leaves the persisted content unchanged, and the following
\* admission of the same artifact and name with the corrected or omitted
\* version succeeds.
C3_Original ==
    /\ [][C3_FailureKeepsContent]_vars
    /\ [](prevResp.status = 400 /\ RetryOfPrev /\ Completed => resp.status = 201)

\* C3 amended: every failed admission leaves the persisted content unchanged,
\* and the retry of a VersionMismatch with the corrected or omitted version
\* succeeds.
C3_FailedAdmissionNoEffect ==
    [][C3_FailureKeepsContent]_vars /\ []C3_RetrySucceeds

C3_Witness ==
    /\ Completed /\ resp.status = 201
    /\ ErrorKind(prevResp) = "VersionMismatch" /\ RetryOfPrev
    /\ db # {}

\* C4: every persisted content record carries the version embedded in the
\* artifact bound to it.
C4_VersionIsEmbedded ==
    \A c \in db : c.version = Descriptor(c.artifact).version

C4_Witness ==
    /\ Completed /\ resp.status = 201 /\ req.version = Absent
    /\ \E c \in db : c.pk = resp.pk /\ c.version = Descriptor(req.artifact).version
    /\ ErrorKind(prevResp) = "VersionMismatch"

\* C5: a reader of committed state never sees a content record without a
\* bound artifact.
C5_NoUnboundRecordVisible ==
    \A c \in ReaderView(db, txn) : c.artifact # NoArtifact

C5_Witness ==
    /\ pc = "bind"
    /\ \E c \in txn : c.artifact = NoArtifact
    /\ db # {}

\* C6 as stated: a create whose artifact has no embedded descriptor is
\* answered with InvalidArtifact whatever the declared name and version.
C6_Original ==
    Completed /\ req.artifact # Absent /\ ~Descriptor(req.artifact).found
        => ErrorKind(resp) = "InvalidArtifact"

\* C6 amended: a create whose artifact has no embedded descriptor is answered
\* with InvalidArtifact whenever a name is declared, whatever the version;
\* without a name it is answered with MissingField on the name.
C6_NoDescriptorRejected ==
    Completed /\ req.artifact # Absent /\ ~Descriptor(req.artifact).found
        => /\ req.name # Absent =>
                ErrorKind(resp) = "InvalidArtifact" /\ resp.field = "artifact"
           /\ req.name = Absent =>
                ErrorKind(resp) = "MissingField" /\ resp.field = "name"

C6_Witness ==
    /\ Completed /\ req.artifact = "A3" /\ req.name # Absent
    /\ req.version # Absent
    /\ ErrorKind(resp) = "InvalidArtifact"

\* C9: the answer of a create is the error of the first failing rule in the
\* order artifact, name, descriptor, version, and 201 when no rule fails.
C9_FirstFailingRuleOnly ==
    /\ Completed =>
          /\ ErrorKind(resp) = FirstFailingRule(req)[1]
          /\ resp.field = FirstFailingRule(req)[2]
    /\ pc # "idle" => FirstFailingRule(req)[1] = "Created"

C9_Witness ==
    /\ Completed /\ req.artifact = Absent /\ req.name = Absent
    /\ ErrorKind(resp) = "MissingField" /\ resp.field = "artifact"
    /\ ErrorKind(prevResp) = "Created" /\ prevReq.version = Absent

\* ------------------------------------------------------------------------
\* Properties of the publish path
\* ------------------------------------------------------------------------
\* The step handles a publish request.
PublishStep ==
    \/ pubReq' # pubReq
    \/ validated' # validated
    \/ pubResp' # pubResp
    \/ Len(tasks') > Len(tasks)

\* The error of the taxonomy that a validation failure reports.
PublishErrorKind(detail) ==
    CASE detail \in {"neither", "both"} -> "AmbiguousTarget"
      [] detail = "no version" -> "NoVersionAvailable"
      [] OTHER -> "Other"

\* The versions whose identifier a task carries.
TaskVersions(t) ==
    {v \in AllVersions : str(v.pk) = t.kwargs.repository_version_pk}

\* The publishers whose identifier a task carries.
TaskPublishers(t) ==
    {p \in Publishers : str(PublisherPk(p)) = t.kwargs.publisher_pk}

\* Two tasks publish versions of the same repository with the same publisher.
SameKey(t, u) ==
    /\ t.kwargs.publisher_pk = u.kwargs.publisher_pk
    /\ \E v \in TaskVersions(t), w \in TaskVersions(u) : v.repository = w.repository

\* C1: two publish tasks of the same (owning repository, publisher) pair are
\* never running at the same time.
C1_NoConcurrentSameKey ==
    \A i, j \in DOMAIN tasks :
        i # j /\ tasks[i].state = "running" /\ tasks[j].state = "running"
            => ~SameKey(tasks[i], tasks[j])

C1_Witness ==
    /\ Len(tasks) = 2
    /\ SameKey(tasks[1], tasks[2])
    /\ tasks[1].kwargs # tasks[2].kwargs
    /\ tasks[1].state = "running" /\ tasks[2].state = "waiting"

\* C2: the serializer resolves a request by the table: neither field ->
\* AmbiguousTarget; version only -> that version; both -> AmbiguousTarget;
\* repository only -> its latest version, NoVersionAvailable without one.
C2_ResolveTable ==
    PublishStep =>
        LET d == pubReq'.data
            hasRepo == d.repository # Absent
            hasVersion == d.repository_version # NoVersion
        IN  /\ ~hasRepo /\ ~hasVersion =>
                 ~validated'.ok /\ PublishErrorKind(validated'.detail) = "AmbiguousTarget"
            /\ ~hasRepo /\ hasVersion =>
                 validated'.ok /\ validated'.data.repository_version = d.repository_version
            /\ hasRepo /\ hasVersion =>
                 ~validated'.ok /\ PublishErrorKind(validated'.detail) = "AmbiguousTarget"
            /\ hasRepo /\ ~hasVersion /\ Len(versions[d.repository]) > 0 =>
                 /\ validated'.ok
                 /\ validated'.data.repository_version =
                        versions[d.repository][Len(versions[d.repository])]
            /\ hasRepo /\ ~hasVersion /\ Len(versions[d.repository]) = 0 =>
                 ~validated'.ok /\ PublishErrorKind(validated'.detail) = "NoVersionAvailable"

C2_Resolve == [][C2_ResolveTable]_vars

C2_Witness ==
    /\ validated.ok
    /\ pubReq.data.repository_version = NoVersion
    /\ Len(versions[pubReq.data.repository]) = 2
    /\ validated.data.repository_version = versions[pubReq.data.repository][2]

\* C7: a rejected publish request leaves the queue and its reservations
\* unchanged, and a request that resolves appends exactly one task.
C7_OneTaskIffResolved ==
    PublishStep =>
        /\ ~validated'.ok =>
              /\ tasks' = tasks
              /\ pubResp'.status = 400
              /\ PublishErrorKind(pubResp'.detail) \in {"AmbiguousTarget", "NoVersionAvailable"}
        /\ validated'.ok =>
              /\ Len(tasks') = Len(tasks) + 1
              /\ SubSeq(tasks', 1, Len(tasks)) = tasks
              /\ pubResp'.status = 202

C7_DispatchAfterResolution == [][C7_OneTaskIffResolved]_vars

C7_Witness ==
    /\ pubResp.status = 400 /\ pubResp.detail = "no version"
    /\ Len(tasks) = 1

\* C8: the task of a successful publish request reserves the repository that
\* owns the resolved version and the publisher of the request; a request that
\* names repository R reserves R and carries a version of R.
C8_KeyOfNewTask ==
    PublishStep /\ validated'.ok =>
        LET t == tasks'[Len(tasks')]
            d == pubReq'.data
        IN  /\ TaskPublishers(t) = {pubReq'.publisher}
            /\ \E v \in TaskVersions(t) :
                  /\ t.reserved = <<Resource("repositories", RepositoryPk(v.repository)),
                                    Resource("publishers", PublisherPk(pubReq'.publisher))>>
                  /\ d.repository # Absent =>
                        v.repository = d.repository /\ v # NoVersion
                  /\ d.repository = Absent => v = d.repository_version

C8_ReservationKey == [][C8_KeyOfNewTask]_vars

C8_Witness ==
    /\ pubResp.status = 202
    /\ pubReq.data.repository = Absent
    /\ pubReq.publisher = "P2"
    /\ Len(tasks) > 0
    /\ tasks[Len(tasks)].reserved =
          <<Resource("repositories", RepositoryPk(pubReq.data.repository_version.repository)),
            Resource("publishers", 2)>>

\* C10: the task of a request that names only repository R carries the
\* identifier of the version that was latest when the request was handled,
\* and no later step, a new version included, changes what a task carries.
C10_TaskVersionAtResolution ==
    /\ PublishStep /\ validated'.ok /\ pubReq'.data.repository # Absent =>
          tasks'[Len(tasks')].kwargs.repository_version_pk =
              str(versions[pubReq'.data.repository][Len(versions[pubReq'.data.repository])].pk)
    /\ versions' # versions => tasks' = tasks
    /\ Len(tasks') >= Len(tasks) =>
          \A i \in DOMAIN tasks : tasks'[i].kwargs = tasks[i].kwargs

C10_VersionFixedAtRequest == [][C10_TaskVersionAtResolution]_vars

C10_Witness ==
    /\ pubResp.status = 202
    /\ pubReq.data.repository # Absent
    /\ Len(tasks) = 1
    /\ Len(versions[pubReq.data.repository]) = 2
    /\ tasks[1].kwargs.repository_version_pk = str(versions[pubReq.data.repository][1].pk)

====
